---- MODULE Spec2Model ----
(***************************************************************************)
(* Model of the vizia counter example (src/vizia/src/main.rs).             *)
(*                                                                         *)
(* State: the AppData model (count), the two callback slots of the Counter *)
(* view, the context's event queue, the event that is being propagated up  *)
(* the view tree, and the count label bound to the AppData::count lens.    *)
(* The handlers (AppData::event, Counter::event, the modifiers, the button *)
(* on_press closures and the closures of main) are translated from         *)
(* main.rs.  The dispatch engine and the binding layer are the framework's;*)
(* they are modelled after sections 4.1, 4.2 and 6 of the specification.   *)
(***************************************************************************)
EXTENDS Integers, Sequences, FiniteSets, TLC

\* ------------------------------------------------------------------ bounds
\* number of button activations the user performs in one run
MaxPress == 3
\* number of button activations in one run of the program as main builds it
MaxPressMain == 4
\* number of times each modifier (on_increment, on_decrement) may be called
MaxInstalls == 2
\* number of button activations in one run under fair scheduling
MaxPressLive == 2

\* ------------------------------------------------------------- i32 (count)
I32Max == 2147483647
I32Min == -I32Max - 1

\* ---------------------------------------------------------------- messages
AppIncrement == [type |-> "AppEvent", variant |-> "Increment"]
AppDecrement == [type |-> "AppEvent", variant |-> "Decrement"]
AppEvent == {AppIncrement, AppDecrement}

CounterIncrement == [type |-> "CounterEvent", variant |-> "Increment"]
CounterDecrement == [type |-> "CounterEvent", variant |-> "Decrement"]
CounterEvent == {CounterIncrement, CounterDecrement}

Message == AppEvent \cup CounterEvent

\* --------------------------------------------------------------- view tree
\* Root is the window entity; AppData { count: 0 }.build(cx) attaches the
\* model to it.  Counter::new builds Counter > HStack > {Button, Button, Label}.
Nodes == {"Root", "Counter", "HStack", "ButtonDec", "ButtonInc", "LabelCount"}
Buttons == {"ButtonDec", "ButtonInc"}

\* variant: the second button is built inside the first one's closure
ParentNested(n) ==
  CASE n = "ButtonDec"  -> "HStack"
    [] n = "ButtonInc"  -> "ButtonDec"
    [] n = "LabelCount" -> "HStack"
    [] n = "HStack"     -> "Counter"
    [] n = "Counter"    -> "Root"
    [] OTHER            -> "None"

\* variant: the HStack is built outside the Counter, directly under the root
ParentFlat(n) ==
  CASE n = "ButtonDec"  -> "HStack"
    [] n = "ButtonInc"  -> "HStack"
    [] n = "LabelCount" -> "HStack"
    [] n = "HStack"     -> "Root"
    [] n = "Counter"    -> "Root"
    [] OTHER            -> "None"

Parent(n) ==
  CASE n = "ButtonDec"  -> "HStack"
    [] n = "ButtonInc"  -> "HStack"
    [] n = "LabelCount" -> "HStack"
    [] n = "HStack"     -> "Counter"
    [] n = "Counter"    -> "Root"
    [] OTHER            -> "None"

\* the nodes from n up to the root, n first
RECURSIVE PathToRoot(_)
PathToRoot(n) == IF n = "None" THEN << >> ELSE <<n>> \o PathToRoot(Parent(n))

\* ------------------------------------------------- callbacks (closures of main)
\* |cx| cx.emit(AppEvent::Increment)  and  |cx| cx.emit(AppEvent::Decrement)
Callbacks == {"EmitIncrement", "EmitDecrement"}

\* variant: both closures emit the same application message
CallbackEmitSame(cb) == AppIncrement

CallbackEmit(cb) ==
  IF cb = "EmitIncrement" THEN AppIncrement ELSE AppDecrement

\* the two installations main performs
MainOnIncrement == "EmitIncrement"
MainOnDecrement == "EmitDecrement"

\* ----------------------------------------------------------- Button on_press
OnPress(b) ==
  IF b = "ButtonDec" THEN CounterDecrement ELSE CounterIncrement

\* ------------------------------------------------------------ AppData::event
\* event.map(|app_event, meta| ...): the closure runs only when the message
\* downcasts to AppEvent.  self.count -= 1 / += 1 on an i32: an overflowing
\* step panics in a build with overflow checks and wraps in one without.
Add32(c) ==
  IF c < I32Max
    THEN {[count |-> c + 1, panic |-> FALSE]}
    ELSE {[count |-> I32Min, panic |-> FALSE], [count |-> c, panic |-> TRUE]}

Sub32(c) ==
  IF c > I32Min
    THEN {[count |-> c - 1, panic |-> FALSE]}
    ELSE {[count |-> I32Max, panic |-> FALSE], [count |-> c, panic |-> TRUE]}

\* variant: the Decrement arm does nothing
AppDataEventNoDecrement(c, msg) ==
  IF msg = AppIncrement THEN Add32(c) ELSE {[count |-> c, panic |-> FALSE]}

\* variant: no downcast, every message variant is applied
AppDataEventAnyType(c, msg) ==
  IF msg.variant = "Decrement" THEN Sub32(c) ELSE Add32(c)

\* variant: a CounterEvent::Increment is counted as well
AppDataEventCountsLocal(c, msg) ==
  IF msg = AppDecrement THEN Sub32(c)
  ELSE IF msg \in {AppIncrement, CounterIncrement} THEN Add32(c)
  ELSE {[count |-> c, panic |-> FALSE]}

AppDataEvent(c, msg) ==
  IF msg \in AppEvent
    THEN IF msg = AppDecrement THEN Sub32(c) ELSE Add32(c)
    ELSE {[count |-> c, panic |-> FALSE]}

\* variant: the model marks every event it sees as consumed
AppDataConsumesAll(msg) == TRUE

\* AppData::event never calls meta.consume()
AppDataConsumes(msg) == FALSE

\* ------------------------------------------------------------ Counter::event
\* variant: an unset slot falls back to a default callback
CounterViewEventDefault(onInc, onDec, msg) ==
  IF msg \in CounterEvent
    THEN IF msg = CounterIncrement
           THEN (IF onInc = "None" THEN "EmitIncrement" ELSE onInc)
           ELSE (IF onDec = "None" THEN "EmitDecrement" ELSE onDec)
    ELSE "None"

\* variant: the Decrement arm is missing
CounterViewEventIncrementOnly(onInc, onDec, msg) ==
  IF msg = CounterIncrement THEN onInc ELSE "None"

\* variant: the two match arms use each other's slot
CounterViewEventSwapped(onInc, onDec, msg) ==
  IF msg \in CounterEvent
    THEN IF msg = CounterIncrement THEN onDec ELSE onInc
    ELSE "None"

\* event.map(|e, _meta| match e { ... }): the callback to invoke, "None" when
\* the message is no CounterEvent or the slot is unset
CounterViewEvent(onInc, onDec, msg) ==
  IF msg \in CounterEvent
    THEN IF msg = CounterIncrement THEN onInc ELSE onDec
    ELSE "None"

\* variant: the callback is taken out of its slot when it is invoked
CounterSlotsTake(onInc, onDec, msg) ==
  [inc |-> IF msg = CounterIncrement THEN "None" ELSE onInc,
   dec |-> IF msg = CounterDecrement THEN "None" ELSE onDec]

\* the slots after Counter::event: the callback is only borrowed
\* (if let Some(callback) = &self.on_increment), both slots stay as they are
CounterSlots(onInc, onDec, msg) == [inc |-> onInc, dec |-> onDec]

\* variant: the Counter consumes the local messages it handles
CounterConsumesLocal(msg) == msg \in CounterEvent

\* Counter::event ignores the metadata (_meta): the event is never consumed
CounterConsumes(msg) == FALSE

\* ------------------------------------------------- CounterModifiers (Handle)
\* variant: a slot that is already set is kept
ModifyOnIncrementKeepFirst(onInc, onDec, cb) ==
  [inc |-> IF onInc = "None" THEN cb ELSE onInc, dec |-> onDec]

\* counter.on_increment = Some(Box::new(callback))
ModifyOnIncrement(onInc, onDec, cb) == [inc |-> cb, dec |-> onDec]
\* variant: on_decrement writes the on_increment slot
ModifyOnDecrementWrongSlot(onInc, onDec, cb) == [inc |-> cb, dec |-> onDec]

\* counter.on_decrement = Some(Box::new(callback))
ModifyOnDecrement(onInc, onDec, cb) == [inc |-> onInc, dec |-> cb]

\* ------------------------------------------------------------------- state
VARIABLES
  pc,            \* position of main: "build", "run", "aborted", "panicked"
  stylesheet,    \* result of add_stylesheet: "pending", "loaded", "failed"
  count,         \* AppData.count
  on_increment,  \* Counter.on_increment: "None" or a callback
  on_decrement,  \* Counter.on_decrement: "None" or a callback
  queue,         \* the context's event queue
  phase,         \* run loop: "idle", "propagating" or "settle"
  cur,           \* the event being propagated (a record), or NoEvent
  label,         \* value cached and displayed by the count label
  renders,       \* number of re-renders of the count label
  nextId,        \* history: number of events emitted so far
  presses,       \* history: the buttons activated, in order
  incInstalls,   \* history: callbacks passed to on_increment, in order
  decInstalls,   \* history: callbacks passed to on_decrement, in order
  invoked,       \* history: callback invocations of Counter::event
  done           \* history: the events whose propagation has finished

vars == <<pc, stylesheet, count, on_increment, on_decrement, queue, phase,
          cur, label, renders, nextId, presses, incInstalls, decInstalls,
          invoked, done>>

NoEvent == [id |-> 0]

\* ------------------------------------------------------------------- Init
\* main: AppData { count: 0 }.build(cx); Counter::new(cx, AppData::count)
\* leaves both slots None and binds the label to the count.
Init ==
  /\ pc = "build"
  /\ stylesheet = "pending"
  /\ count = 0
  /\ on_increment = "None"
  /\ on_decrement = "None"
  /\ queue = << >>
  /\ phase = "idle"
  /\ cur = NoEvent
  /\ label = 0
  /\ renders = 0
  /\ nextId = 0
  /\ presses = << >>
  /\ incInstalls = << >>
  /\ decInstalls = << >>
  /\ invoked = << >>
  /\ done = << >>

\* ---------------------------------------------------------------- build
OnIncrement(cb) ==
  /\ pc = "build"
  /\ Len(incInstalls) < MaxInstalls
  /\ on_increment' = ModifyOnIncrement(on_increment, on_decrement, cb).inc
  /\ on_decrement' = ModifyOnIncrement(on_increment, on_decrement, cb).dec
  /\ incInstalls' = Append(incInstalls, cb)
  /\ UNCHANGED <<pc, stylesheet, count, queue, phase, cur, label, renders,
                 nextId, presses, decInstalls, invoked, done>>

OnDecrement(cb) ==
  /\ pc = "build"
  /\ Len(decInstalls) < MaxInstalls
  /\ on_increment' = ModifyOnDecrement(on_increment, on_decrement, cb).inc
  /\ on_decrement' = ModifyOnDecrement(on_increment, on_decrement, cb).dec
  /\ decInstalls' = Append(decInstalls, cb)
  /\ UNCHANGED <<pc, stylesheet, count, queue, phase, cur, label, renders,
                 nextId, presses, incInstalls, invoked, done>>

\* variant: the result of add_stylesheet is dropped instead of expect()ed
AddStylesheetUnchecked(ok) ==
  /\ pc = "build"
  /\ stylesheet' = IF ok THEN "loaded" ELSE "failed"
  /\ pc' = "run"
  /\ UNCHANGED <<count, on_increment, on_decrement, queue, phase, cur, label,
                 renders, nextId, presses, incInstalls, decInstalls, invoked,
                 done>>

\* cx.add_stylesheet(...).expect("Failed to load stylesheet"), then run()
AddStylesheet(ok) ==
  /\ pc = "build"
  /\ stylesheet' = IF ok THEN "loaded" ELSE "failed"
  /\ pc' = IF ok THEN "run" ELSE "aborted"
  /\ UNCHANGED <<count, on_increment, on_decrement, queue, phase, cur, label,
                 renders, nextId, presses, incInstalls, decInstalls, invoked,
                 done>>

\* ------------------------------------------------------------- run loop
\* ex.emit(message) from node n: a new event is appended to the queue
Emit(q, id, msg, n, cause) ==
  Append(q, [id |-> id, msg |-> msg, origin |-> n, cause |-> cause])

\* the user activates a button; its on_press closure emits a CounterEvent
PressUpTo(b, max) ==
  /\ pc = "run"
  /\ phase = "idle"
  /\ Len(presses) < max
  /\ queue' = Emit(queue, nextId + 1, OnPress(b), b, 0)
  /\ nextId' = nextId + 1
  /\ presses' = Append(presses, b)
  /\ UNCHANGED <<pc, stylesheet, count, on_increment, on_decrement, phase,
                 cur, label, renders, incInstalls, decInstalls, invoked,
                 done>>

Press(b) == PressUpTo(b, MaxPress)

\* variant: the next event is started as soon as it is queued, also while
\* another event is still being propagated
DispatchEager ==
  /\ pc = "run"
  /\ phase \in {"idle", "propagating"}
  /\ queue # << >>
  /\ cur' = [id |-> Head(queue).id, msg |-> Head(queue).msg,
             origin |-> Head(queue).origin, cause |-> Head(queue).cause,
             at |-> Head(queue).origin, consumed |-> FALSE, path |-> << >>]
  /\ queue' = Tail(queue)
  /\ phase' = "propagating"
  /\ UNCHANGED <<pc, stylesheet, count, on_increment, on_decrement, label,
                 renders, nextId, presses, incInstalls, decInstalls, invoked,
                 done>>

\* the run loop takes the next event of the queue and starts at its origin
Dispatch ==
  /\ pc = "run"
  /\ phase = "idle"
  /\ queue # << >>
  /\ cur' = [id |-> Head(queue).id, msg |-> Head(queue).msg,
             origin |-> Head(queue).origin, cause |-> Head(queue).cause,
             at |-> Head(queue).origin, consumed |-> FALSE, path |-> << >>]
  /\ queue' = Tail(queue)
  /\ phase' = "propagating"
  /\ UNCHANGED <<pc, stylesheet, count, on_increment, on_decrement, label,
                 renders, nextId, presses, incInstalls, decInstalls, invoked,
                 done>>

\* after the handler of node n: stop at the root or when consumed, else go up
Advance(n, consumed) ==
  /\ cur' = [cur EXCEPT !.path = Append(@, n), !.consumed = consumed,
                        !.at = IF consumed THEN n ELSE Parent(n)]
  /\ phase' = IF consumed \/ Parent(n) = "None" THEN "settle"
              ELSE "propagating"

\* a node without a handler of main.rs (HStack, Button, Label) is passed
DeliverOther ==
  /\ pc = "run"
  /\ phase = "propagating"
  /\ cur.at \notin {"Counter", "Root"}
  /\ Advance(cur.at, FALSE)
  /\ UNCHANGED <<pc, stylesheet, count, on_increment, on_decrement, queue,
                 label, renders, nextId, presses, incInstalls, decInstalls,
                 invoked, done>>

\* Counter::event
DeliverCounter ==
  /\ pc = "run"
  /\ phase = "propagating"
  /\ cur.at = "Counter"
  /\ LET cb == CounterViewEvent(on_increment, on_decrement, cur.msg) IN
       IF cb = "None"
         THEN UNCHANGED <<queue, nextId, invoked>>
         ELSE /\ queue' = Emit(queue, nextId + 1, CallbackEmit(cb), "Counter",
                               cur.id)
              /\ nextId' = nextId + 1
              /\ invoked' = Append(invoked, [on |-> cur.msg, cb |-> cb,
                                             event |-> cur.id])
  /\ on_increment' = CounterSlots(on_increment, on_decrement, cur.msg).inc
  /\ on_decrement' = CounterSlots(on_increment, on_decrement, cur.msg).dec
  /\ Advance("Counter", CounterConsumes(cur.msg))
  /\ UNCHANGED <<pc, stylesheet, count, label, renders, presses, incInstalls,
                 decInstalls, done>>

\* AppData::event, the model attached to the root
DeliverRoot ==
  /\ pc = "run"
  /\ phase = "propagating"
  /\ cur.at = "Root"
  /\ \E o \in AppDataEvent(count, cur.msg) :
       /\ count' = o.count
       /\ pc' = IF o.panic THEN "panicked" ELSE pc
  /\ Advance("Root", AppDataConsumes(cur.msg))
  /\ UNCHANGED <<stylesheet, on_increment, on_decrement, queue, label,
                 renders, nextId, presses, incInstalls, decInstalls, invoked,
                 done>>

\* variant: the label is built from the value at construction, not a lens
LensGetInitial(c) == 0

\* the AppData::count lens passed to Counter::new: reads the count field
LensGet(c) == c

\* the equality rule of the lens: the new value against the cached one
LensChanged(new, cached) == new # cached

\* the binding layer after a mutation cycle: re-evaluate the lens, compare
\* with the cached value, re-render the label only on inequality
UpdateBindings ==
  /\ pc = "run"
  /\ phase = "settle"
  /\ label' = IF LensChanged(LensGet(count), label)
                THEN LensGet(count) ELSE label
  /\ renders' = IF LensChanged(LensGet(count), label)
                  THEN renders + 1 ELSE renders
  /\ done' = Append(done, [id |-> cur.id, msg |-> cur.msg,
                           origin |-> cur.origin, path |-> cur.path,
                           consumed |-> cur.consumed,
                           rendered |-> LensChanged(LensGet(count), label)])
  /\ cur' = NoEvent
  /\ phase' = "idle"
  /\ UNCHANGED <<pc, stylesheet, count, on_increment, on_decrement, queue,
                 nextId, presses, incInstalls, decInstalls, invoked>>

Next ==
  \/ \E cb \in Callbacks : OnIncrement(cb)
  \/ \E cb \in Callbacks : OnDecrement(cb)
  \/ \E ok \in BOOLEAN : AddStylesheet(ok)
  \/ \E b \in Buttons : Press(b)
  \/ Dispatch
  \/ DeliverOther
  \/ DeliverCounter
  \/ DeliverRoot
  \/ UpdateBindings

Spec == Init /\ [][Next]_vars

\* ------------------------------------------------- the program main builds
\* main calls on_increment, then on_decrement, then loads the stylesheet
MainOnIncrementCall ==
  incInstalls = << >> /\ decInstalls = << >> /\ OnIncrement(MainOnIncrement)

MainOnDecrementCall ==
  incInstalls # << >> /\ decInstalls = << >> /\ OnDecrement(MainOnDecrement)

MainAddStylesheet(ok) ==
  incInstalls # << >> /\ decInstalls # << >> /\ AddStylesheet(ok)

PressMain(b) == PressUpTo(b, MaxPressMain)

NextMain ==
  \/ MainOnIncrementCall
  \/ MainOnDecrementCall
  \/ \E ok \in BOOLEAN : MainAddStylesheet(ok)
  \/ \E b \in Buttons : PressMain(b)
  \/ Dispatch
  \/ DeliverOther
  \/ DeliverCounter
  \/ DeliverRoot
  \/ UpdateBindings

SpecMain == Init /\ [][NextMain]_vars

\* ------------------------------------- the program at the ends of the i32
\* values of count after long runs: at and next to the ends of the i32 range
EdgeCounts == {I32Min, I32Min + 1, -1, 0, I32Max - 1, I32Max}

\* the program as main builds it, taken up with count at one of EdgeCounts
InitEdge ==
  /\ pc = "build"
  /\ stylesheet = "pending"
  /\ count \in EdgeCounts
  /\ on_increment = "None"
  /\ on_decrement = "None"
  /\ queue = << >>
  /\ phase = "idle"
  /\ cur = NoEvent
  /\ label = count
  /\ renders = 0
  /\ nextId = 0
  /\ presses = << >>
  /\ incInstalls = << >>
  /\ decInstalls = << >>
  /\ invoked = << >>
  /\ done = << >>

SpecEdge == InitEdge /\ [][NextMain]_vars

\* ------------------------------------------- the run loop, fairly scheduled
\* The run loop is one thread that keeps taking events from the queue: a
\* step of the loop that is possible is taken.  Input is not forced to arrive.
PressLive(b) == PressUpTo(b, MaxPressLive)

NextLive ==
  \/ \E cb \in Callbacks : OnIncrement(cb)
  \/ \E cb \in Callbacks : OnDecrement(cb)
  \/ \E ok \in BOOLEAN : AddStylesheet(ok)
  \/ \E b \in Buttons : PressLive(b)
  \/ Dispatch
  \/ DeliverOther
  \/ DeliverCounter
  \/ DeliverRoot
  \/ UpdateBindings

RunLoopFair ==
  /\ WF_vars(Dispatch)
  /\ WF_vars(DeliverOther)
  /\ WF_vars(DeliverCounter)
  /\ WF_vars(DeliverRoot)
  /\ WF_vars(UpdateBindings)

SpecLive == Init /\ [][NextLive]_vars /\ RunLoopFair

\* ---------------------------------------------------------------- helpers
\* number of activations of button b in the sequence s of activations
RECURSIVE Occurrences(_, _)
Occurrences(s, b) ==
  IF s = << >> THEN 0
  ELSE (IF Head(s) = b THEN 1 ELSE 0) + Occurrences(Tail(s), b)

\* every emitted event has been propagated and the bindings are up to date
Quiescent == pc = "run" /\ phase = "idle" /\ queue = << >>

\* the Counter is configured as main configures it
AsInMain ==
  /\ incInstalls = <<MainOnIncrement>>
  /\ decInstalls = <<MainOnDecrement>>

\* --------------------------------------------------------------------- C1
\* C1: with the callbacks of main installed and count starting at 0, once
\* every activation has been fully processed the count and the label both
\* equal (#Increment activations) - (#Decrement activations), and exactly one
\* AppEvent per activation has been applied to the model.
C1_NetCount ==
  (AsInMain /\ Quiescent) =>
    /\ count = Occurrences(presses, "ButtonInc")
               - Occurrences(presses, "ButtonDec")
    /\ label = count
    /\ Cardinality({i \in DOMAIN done : done[i].msg \in AppEvent})
         = Len(presses)

C1_Witness ==
  /\ AsInMain /\ Quiescent
  /\ presses = <<"ButtonInc", "ButtonInc", "ButtonInc", "ButtonDec">>
  /\ count = 2 /\ label = 2

\* --------------------------------------------------------------------- C2
\* the messages of all events emitted so far: queued, in flight, finished
EmittedMessages ==
  {queue[i].msg : i \in DOMAIN queue}
    \cup {done[i].msg : i \in DOMAIN done}
    \cup (IF cur = NoEvent THEN {} ELSE {cur.msg})

NoCallbackInstalled == incInstalls = << >> /\ decInstalls = << >>

\* C2: on a Counter on which neither on_increment nor on_decrement was ever
\* called, activations of either button leave count unchanged, emit no
\* application-level message, invoke nothing and raise no error.
C2_UnsetSlotsNoOp ==
  NoCallbackInstalled =>
    /\ count = 0
    /\ EmittedMessages \subseteq CounterEvent
    /\ nextId = Len(presses)
    /\ invoked = << >>
    /\ presses # << >> => pc = "run"

C2_Witness ==
  /\ NoCallbackInstalled /\ Quiescent
  /\ Occurrences(presses, "ButtonInc") >= 1
  /\ Occurrences(presses, "ButtonDec") >= 1
  /\ Len(done) = Len(presses)

\* --------------------------------------------------------------------- C3
\* C3: when on_increment (respectively on_decrement) was called twice with
\* callbacks f1 then f2, every invocation made for a local Increment
\* (respectively Decrement) message is an invocation of f2; f1 is not invoked.
C3_SecondInstallWins ==
  \A i \in DOMAIN invoked :
    /\ (invoked[i].on = CounterIncrement /\ Len(incInstalls) >= 2)
         => invoked[i].cb = incInstalls[Len(incInstalls)]
    /\ (invoked[i].on = CounterDecrement /\ Len(decInstalls) >= 2)
         => invoked[i].cb = decInstalls[Len(decInstalls)]

C3_Witness ==
  /\ Len(incInstalls) = 2 /\ incInstalls[1] # incInstalls[2]
  /\ Len(decInstalls) = 2 /\ decInstalls[1] # decInstalls[2]
  /\ \E i \in DOMAIN invoked : invoked[i].on = CounterIncrement
  /\ \E i \in DOMAIN invoked : invoked[i].on = CounterDecrement

\* --------------------------------------------------------------------- C4
\* AppData's handler is about to run on a message that is no AppEvent
RootGetsForeign ==
  phase = "propagating" /\ cur.at = "Root" /\ cur.msg \notin AppEvent

\* C4: when AppData's event handler receives an event whose message is not an
\* AppEvent, count is unchanged, the event is not marked absorbed and the
\* program does not abort.
C4_ForeignIgnored ==
  [][RootGetsForeign =>
       /\ count' = count
       /\ cur'.consumed = FALSE
       /\ pc' = pc
       /\ cur'.path = Append(cur.path, "Root")]_vars

C4_Witness ==
  \E i \in DOMAIN done :
    /\ done[i].msg \in CounterEvent
    /\ done[i].path # << >>
    /\ done[i].path[Len(done[i].path)] = "Root"
    /\ ~done[i].consumed

\* --------------------------------------------------------------------- C5
\* the events whose handlers have started to run: in flight or finished
Started ==
  {done[i] : i \in DOMAIN done}
    \cup (IF cur = NoEvent THEN {}
          ELSE {[id |-> cur.id, msg |-> cur.msg, origin |-> cur.origin,
                 path |-> cur.path, consumed |-> cur.consumed,
                 rendered |-> FALSE]})

Finished == {done[i] : i \in DOMAIN done}

Range(s) == {s[i] : i \in DOMAIN s}

\* C5 as stated: once the Counter has handled a CounterEvent, no ancestor of
\* the Counter has its handler invoked with that event.
C5_NeverPastCounter ==
  \A e \in Started :
    e.msg \in CounterEvent =>
      \A i \in DOMAIN e.path : e.path[i] = "Counter" => i = Len(e.path)

\* a CounterEvent is about to be handed to a node other than the Counter
CounterEventElsewhere ==
  phase = "propagating" /\ cur.msg \in CounterEvent /\ cur.at # "Counter"

\* C5 (amended): a CounterEvent is acted on only by the Counter's own handler.
\* Counter::event does not mark it absorbed, so it is still delivered to the
\* Counter's ancestors up to the root, whose AppData handler is invoked with
\* it and ignores it: no handler other than Counter::event changes any state
\* or emits anything for a CounterEvent.
C5_OnlyCounterActs ==
  /\ [](\A e \in Finished :
          e.msg \in CounterEvent => e.path = PathToRoot(e.origin))
  /\ [][CounterEventElsewhere =>
          UNCHANGED <<pc, count, on_increment, on_decrement, queue, label,
                      renders, nextId, invoked>>]_vars

C5_Witness ==
  \E e \in Finished :
    /\ e.msg \in CounterEvent
    /\ e.path = <<e.origin, "HStack", "Counter", "Root">>
    /\ \E i \in DOMAIN invoked : invoked[i].event = e.id

\* --------------------------------------------------------------------- C6
\* AppData's handler is about to run on an AppEvent
RootGetsAppEvent ==
  phase = "propagating" /\ cur.at = "Root" /\ cur.msg \in AppEvent

\* C6: count changes only in a step in which AppData's event handler
\* processes an AppEvent; no step of a view changes it.
C6_OnlyModelMutates == [][count' # count => RootGetsAppEvent]_vars

C6_Witness ==
  /\ count # 0
  /\ \E e \in Finished : e.msg \in AppEvent
  /\ \E e \in Finished : e.msg \in CounterEvent

\* --------------------------------------------------------------------- C7
\* C7: the handlers on the path of one event run child before parent, one at
\* a time; for a CounterEvent the Counter's handler has run before the root
\* model's handler, which observes the state the Counter's handler left (the
\* application message the installed callback emitted is already queued).
C7_ChildBeforeParent ==
  /\ \A e \in Started :
       /\ e.path # << >> => e.path[1] = e.origin
       /\ \A i \in DOMAIN e.path :
            i < Len(e.path) => e.path[i + 1] = Parent(e.path[i])
  /\ (phase = "propagating" /\ cur.at = "Root" /\ cur.msg \in CounterEvent) =>
       /\ "Counter" \in Range(cur.path)
       /\ LET cb == CounterViewEvent(on_increment, on_decrement, cur.msg) IN
            cb # "None" =>
              \E i \in DOMAIN queue :
                queue[i].cause = cur.id /\ queue[i].msg = CallbackEmit(cb)

C7_Witness ==
  /\ phase = "propagating" /\ cur.at = "Root" /\ cur.msg \in CounterEvent
  /\ cur.path = <<cur.origin, "HStack", "Counter">>
  /\ CounterViewEvent(on_increment, on_decrement, cur.msg) # "None"

C9_RenderOnlyOnChange ==
  /\ [][renders' # renders =>
          /\ phase = "settle" /\ count # label
          /\ renders' = renders + 1 /\ label' = count]_vars
  /\ [](\A e \in Finished : e.msg \notin AppEvent => ~e.rendered)
  /\ [](NoCallbackInstalled => renders = 0)

C9_Witness ==
  /\ NoCallbackInstalled /\ Quiescent
  /\ Len(done) >= 2
  /\ \A e \in Finished : e.msg \in CounterEvent /\ ~e.rendered
  /\ renders = 0 /\ label = 0

\* -------------------------------------------------------------------- C10
\* C10: every mutation cycle in which the model applied an AppEvent
\* re-renders the count label, also when a later cycle brings the count back:
\* with the callbacks of main, an Increment followed by a Decrement leaves
\* count at its old value and has re-rendered the label twice.
C10_EachCycleRenders ==
  /\ \A e \in Finished : e.msg \in AppEvent => e.rendered
  /\ renders = Cardinality({e \in Finished : e.msg \in AppEvent})
  /\ (AsInMain /\ Quiescent) => renders = Len(presses)

C10_Witness ==
  /\ AsInMain /\ Quiescent
  /\ presses = <<"ButtonInc", "ButtonDec">>
  /\ count = 0 /\ label = 0 /\ renders = 2

\* -------------------------------------------------------------------- C11
\* the slot that results from the calls of one modifier, whatever calls of
\* the other modifier came before, between or after them
SlotOf(installs) ==
  IF installs = << >> THEN "None" ELSE installs[Len(installs)]

InvocationsFor(e) == {i \in DOMAIN invoked : invoked[i].event = e.id}

\* the events the Counter's handler has already been invoked with
PastCounter == {e \in Started : "Counter" \in Range(e.path)}

\* C12: Counter::event routes each local message to its own slot only: a
\* CounterEvent::Increment invokes the on_increment callback exactly once
\* (when set) and never the on_decrement one, a CounterEvent::Decrement the
\* on_decrement callback exactly once and never the on_increment one; the
\* Decrement button emits only CounterEvent::Decrement and the Increment
\* button only CounterEvent::Increment.
C12_RoutedToOwnSlot ==
  /\ \A e \in PastCounter :
       /\ e.msg = CounterIncrement =>
            /\ Cardinality(InvocationsFor(e))
                 = (IF on_increment = "None" THEN 0 ELSE 1)
            /\ \A i \in InvocationsFor(e) : invoked[i].cb = on_increment
       /\ e.msg = CounterDecrement =>
            /\ Cardinality(InvocationsFor(e))
                 = (IF on_decrement = "None" THEN 0 ELSE 1)
            /\ \A i \in InvocationsFor(e) : invoked[i].cb = on_decrement
       /\ e.msg \in AppEvent => InvocationsFor(e) = {}
  /\ \A e \in Started :
       /\ e.origin = "ButtonDec" => e.msg = CounterDecrement
       /\ e.origin = "ButtonInc" => e.msg = CounterIncrement
  /\ \A i \in DOMAIN queue :
       /\ queue[i].origin = "ButtonDec" => queue[i].msg = CounterDecrement
       /\ queue[i].origin = "ButtonInc" => queue[i].msg = CounterIncrement

C12_Witness ==
  /\ on_increment # "None" /\ on_decrement # "None"
  /\ on_increment # on_decrement
  /\ \E e \in Finished :
       e.msg = CounterIncrement /\ Cardinality(InvocationsFor(e)) = 1
  /\ \E e \in Finished :
       e.msg = CounterDecrement /\ Cardinality(InvocationsFor(e)) = 1

\* -------------------------------------------------------------------- C13
QueuedIds == {queue[i].id : i \in DOMAIN queue}
FinishedIds == {e.id : e \in Finished}
InFlightIds == IF cur = NoEvent THEN {} ELSE {cur.id}

\* C13: events are processed serially.  The AppEvent a callback emits while
\* Counter::event handles a CounterEvent is only queued: no handler runs on
\* it before the CounterEvent has finished propagating.  Every emitted event
\* is queued, in flight or finished, and at most one is in flight.
C13_Serial ==
  /\ (phase # "idle" /\ cur.cause # 0) => cur.cause \in FinishedIds
  /\ \A e \in Finished : e.id \notin InFlightIds
  /\ \A i \in DOMAIN invoked :
       invoked[i].event \in InFlightIds =>
         \E j \in DOMAIN queue : queue[j].cause = invoked[i].event
  /\ QueuedIds \cup InFlightIds \cup FinishedIds = 1..nextId
  /\ QueuedIds \cap (InFlightIds \cup FinishedIds) = {}
  /\ Cardinality(InFlightIds) = (IF phase = "idle" THEN 0 ELSE 1)
  /\ Cardinality(FinishedIds) = Len(done)

C13_Witness ==
  /\ phase = "propagating" /\ cur.msg \in AppEvent /\ cur.at = "Root"
  /\ cur.cause \in FinishedIds
  /\ queue # << >>

\* -------------------------------------------------------------------- C14
\* C14: whenever the binding update that follows the last mutation cycle has
\* run (the run loop is idle), in particular whenever the event queue is
\* empty as well, the count label displays the model's current count.
C14_LabelShowsCount ==
  (pc = "run" /\ phase = "idle") => label = count

C14_Witness ==
  /\ Quiescent
  /\ count # 0 /\ label = count
  /\ renders >= 2
  /\ \E e \in Finished : e.msg = AppDecrement

\* -------------------------------------------------------------------- C15
\* the slot that belongs to button b
SlotOfButton(b) == IF b = "ButtonInc" THEN on_increment ELSE on_decrement

\* number of activations so far of a button whose callback is installed
Effective ==
  Cardinality({i \in DOMAIN presses : SlotOfButton(presses[i]) # "None"})

\* number of application messages applied to the model and re-rendered
Applied ==
  Cardinality({e \in Finished : e.msg \in AppEvent /\ e.rendered})

\* C15: under fair scheduling of the run loop, every activation of a button
\* whose callback is installed is eventually followed by the model having
\* applied it and the label having been re-rendered with the new value, and
\* the event queue eventually drains.
C15_EventuallyApplied ==
  /\ \A n \in 1..MaxPressLive : (Effective >= n) ~> (Applied >= n)
  /\ (pc = "run") ~> (Quiescent /\ label = count)

C15_Witness ==
  /\ Effective = 2 /\ Applied = 2
  /\ Quiescent /\ label = count

\* -------------------------------------------------------------------- C16
\* the nodes strictly below n in the tree Counter::new builds
Descendants(n) ==
  {m \in Nodes : m # n /\ n \in Range(PathToRoot(m))}

\* C16: an emitted event is delivered only to the emitting node and its
\* ancestors up to the root, each at most once: a CounterEvent emitted by one
\* button never reaches the other button or the count label, and an AppEvent
\* emitted from the Counter's context never reaches a descendant of the
\* Counter.
C16_OnlyAncestors ==
  \A e \in Started :
    /\ Range(e.path) \subseteq Range(PathToRoot(e.origin))
    /\ Cardinality(Range(e.path)) = Len(e.path)
    /\ e.origin = "ButtonDec" =>
         Range(e.path) \cap {"ButtonInc", "LabelCount"} = {}
    /\ e.origin = "ButtonInc" =>
         Range(e.path) \cap {"ButtonDec", "LabelCount"} = {}
    /\ e.msg \in AppEvent =>
         /\ e.origin = "Counter"
         /\ Range(e.path) \cap Descendants("Counter") = {}
         /\ Range(e.path) \subseteq {"Counter", "Root"}

C16_Witness ==
  /\ \E e \in Finished : e.origin = "ButtonDec" /\ Len(e.path) = 4
  /\ \E e \in Finished : e.origin = "ButtonInc" /\ Len(e.path) = 4
  /\ \E e \in Finished : e.msg \in AppEvent /\ Len(e.path) = 2

\* -------------------------------------------------------------------- C17
\* C17: the counter is never clamped and has no lower or upper bound: for
\* every value v the 32-bit count can hold, handling AppEvent::Increment
\* leaves count = v + 1 and handling AppEvent::Decrement leaves count = v - 1,
\* also at the minimum and the maximum 32-bit value, and the program goes on.
C17_Unbounded ==
  [][RootGetsAppEvent =>
       /\ pc' = "run"
       /\ IF cur.msg = AppIncrement
            THEN count' > count /\ count' - 1 = count
            ELSE count' < count /\ count' + 1 = count]_vars

\* -------------------------------------------------------------------- C18
\* Counter::event is about to run
CounterHandles == phase = "propagating" /\ cur.at = "Counter"

\* C18: the Counter's only state is its two callback slots, each unset or a
\* callback (never the counter value); Counter::event never changes a slot,
\* whatever message it receives; a slot changes only in a call of its
\* modifier, and a slot once installed is never unset again.
C18_SlotsOnly ==
  /\ [](on_increment \in Callbacks \cup {"None"})
  /\ [](on_decrement \in Callbacks \cup {"None"})
  /\ [][CounterHandles => UNCHANGED <<on_increment, on_decrement>>]_vars
  /\ [][on_increment' # on_increment =>
          pc = "build" /\ incInstalls' # incInstalls]_vars
  /\ [][on_decrement' # on_decrement =>
          pc = "build" /\ decInstalls' # decInstalls]_vars
  /\ [][on_increment # "None" => on_increment' # "None"]_vars
  /\ [][on_decrement # "None" => on_decrement' # "None"]_vars

C18_Witness ==
  /\ on_increment # "None" /\ on_decrement # "None"
  /\ \E i, j \in DOMAIN invoked :
       i # j /\ invoked[i].on = invoked[j].on /\ invoked[i].cb = invoked[j].cb
  /\ \E e \in Finished : e.msg \in AppEvent /\ "Counter" \in Range(e.path)

\* -------------------------------------------------------------------- C19
\* C19: when loading the stylesheet fails the application aborts before the
\* run loop starts: no input is processed, no event is emitted or delivered,
\* the model is not mutated, and nothing happens afterwards.
C19_FailFast ==
  /\ [](stylesheet = "failed" =>
          /\ pc = "aborted"
          /\ presses = << >> /\ nextId = 0 /\ queue = << >>
          /\ cur = NoEvent /\ done = << >> /\ invoked = << >>
          /\ count = 0 /\ label = 0 /\ renders = 0)
  /\ [][stylesheet = "failed" => vars' = vars]_vars

C19_Witness ==
  /\ stylesheet = "failed" /\ pc = "aborted"
  /\ incInstalls # << >> /\ decInstalls # << >>

====
